---- MODULE Spec2Model ----
(***************************************************************************)
(* The incremental-economy engine of ipigs.py (class GameState, and the    *)
(* purchase handlers of class GameUI) as a state machine.                  *)
(*                                                                         *)
(* Numbers.  The program keeps cash, total_earnings and prestige_bonus as  *)
(* decimal.Decimal and particle counts and base productions as floats      *)
(* that it converts with Decimal(str(x)) before every product.  Both are   *)
(* modelled by exact decimal fixed-point numbers ("Dec"): a tuple          *)
(* <<w, f1, f2, f3, f4>> of a signed whole part and four limbs of four     *)
(* decimal digits each, of value w + f1/10^4 + f2/10^8 + f3/10^12 +        *)
(* f4/10^16.  Sums, differences and comparisons are exact; products are    *)
(* exact as long as they need at most 16 decimals, which every product of  *)
(* the model does except the powers of calculate_cost (rounded to 2        *)
(* decimals by the code).  The one float effect that is not a decimal one, *)
(* the direction in which round(x, 2) resolves a value whose exact decimal *)
(* expansion ends in a 5 at the third place, is left open: both results    *)
(* are successors.                                                         *)
(***************************************************************************)
EXTENDS Integers, Sequences, FiniteSets, TLC

Base == 10 ^ 4

\* Dec of a whole number
D(n) == <<n, 0, 0, 0, 0>>

\* Dec of n + h/100
D2(n, h) == <<n, h * 100, 0, 0, 0>>

\* Dec of n + m/1000
D3(n, m) == <<n, m * 10, 0, 0, 0>>

\* the limbs a1 .. a5 as a Dec: every limb below the first brought into
\* 0 .. Base - 1, its carry (or borrow) moved to the limb above
Normal(a1, a2, a3, a4, a5) ==
    LET b4 == a4 + (a5 \div Base)
        b3 == a3 + (b4 \div Base)
        b2 == a2 + (b3 \div Base)
    IN  <<a1 + (b2 \div Base), b2 % Base, b3 % Base, b4 % Base, a5 % Base>>

DAdd(x, y) == Normal(x[1] + y[1], x[2] + y[2], x[3] + y[3], x[4] + y[4], x[5] + y[5])

DSub(x, y) == Normal(x[1] - y[1], x[2] - y[2], x[3] - y[3], x[4] - y[4], x[5] - y[5])

\* x >= y: the limbs compared from the whole part down
DGe(x, y) ==
    IF x[1] # y[1] THEN x[1] > y[1]
    ELSE IF x[2] # y[2] THEN x[2] > y[2]
    ELSE IF x[3] # y[3] THEN x[3] > y[3]
    ELSE IF x[4] # y[4] THEN x[4] > y[4]
    ELSE x[5] >= y[5]

\* x > y
DGt(x, y) == DGe(x, y) /\ x # y

Abs(n) == IF n < 0 THEN -n ELSE n

\* the carry out of the limbs of x * y past the 16th decimal (limbs 6 .. 9 of
\* the product; limb k collects x[i] * y[j] with i + j = k + 1)
LowCarry(x, y) ==
    LET l9 == x[5] * y[5]
        l8 == x[4] * y[5] + x[5] * y[4] + (l9 \div Base)
        l7 == x[3] * y[5] + x[4] * y[4] + x[5] * y[3] + (l8 \div Base)
        l6 == x[2] * y[5] + x[3] * y[4] + x[4] * y[3] + x[5] * y[2] + (l7 \div Base)
    IN  l6 \div Base

\* x * y, digits past the 16th decimal dropped
DMul(x, y) ==
    Normal(x[1] * y[1],
           x[1] * y[2] + x[2] * y[1],
           x[1] * y[3] + x[2] * y[2] + x[3] * y[1],
           x[1] * y[4] + x[2] * y[3] + x[3] * y[2] + x[4] * y[1],
           x[1] * y[5] + x[2] * y[4] + x[3] * y[3] + x[4] * y[2] + x[5] * y[1]
               + LowCarry(x, y))

(***************************************************************************)
(* Bounds of the model.                                                    *)
(***************************************************************************)
\* calculate_cost is evaluated for counts up to MaxExponent: a buy button is
\* modelled while the count of the particle it prices is at most this
MaxExponent == 0

\* update_economy is modelled while total_earnings stays at most MaxEarnings
MaxEarnings == 9000

\* ... and while every particle count is at most MaxCount when it is called
MaxCount == 300

\* upgrade purchases are modelled while at most MaxUpgrades upgrades are purchased
MaxUpgrades == 1

\* the elapsed times (seconds) update_economy is called with
DtChoices == {D(0), D(3000)}

(***************************************************************************)
(* Catalog: the keys of GameState.particles in insertion order.            *)
(***************************************************************************)
Order == <<"alpha", "beta", "gamma">>

ParticleKeys == {"alpha", "beta", "gamma"}

VARIABLES
    cash,              \* GameState.cash (Decimal)
    prestige_level,    \* GameState.prestige_level
    prestige_bonus,    \* GameState.prestige_bonus (Decimal)
    total_earnings,    \* GameState.total_earnings (Decimal)
    particles,         \* GameState.particles: key -> ParticleType
    upgrades,          \* GameState.upgrades: list of Upgrade
    booster_upgrades,  \* GameState.booster_upgrades: list of Upgrade
    achievements,      \* GameState.achievements: list of Achievement
    last               \* the last call: its name, target, success and what it returned

vars == <<cash, prestige_level, prestige_bonus, total_earnings, particles,
          upgrades, booster_upgrades, achievements, last>>

ParticleType(name, base_cost, cost_growth, base_production, produces, unlocked) ==
    [name |-> name, base_cost |-> base_cost, cost_growth |-> cost_growth,
     base_production |-> base_production, produces |-> produces,
     count |-> D(0), unlocked |-> unlocked, purchased_upgrades |-> <<>>]

init_particles ==
    ("alpha" :> ParticleType("Alpha", 10, D2(1, 15), D(1), "cash", TRUE))
    @@ ("beta" :> ParticleType("Beta", 50, D2(1, 20), D(0), "beta", FALSE))
    @@ ("gamma" :> ParticleType("Gamma", 250, D2(1, 25), D(10), "gamma", FALSE))

Upgrade(name, cost, effect, particle_requirement, currency) ==
    [name |-> name, cost |-> cost, effect |-> effect,
     particle_requirement |-> particle_requirement, currency |-> currency,
     unlocked |-> FALSE]

init_upgrades ==
    <<Upgrade("Quantum Computing", 100, "apply_quantum_computing", "alpha", "cash"),
      Upgrade("Hyperspace Fabrication", 500, "apply_hyperspace_fabrication", "beta", "cash"),
      Upgrade("Gamma Resonance", 2500, "apply_gamma_resonance", "gamma", "cash")>>

init_booster_upgrades ==
    <<Upgrade("Beta Booster", 10, "apply_beta_booster", "beta", "beta"),
      Upgrade("Gamma Booster", 50, "apply_gamma_booster", "gamma", "gamma")>>

Achievement(name, reward) == [name |-> name, reward |-> reward, unlocked |-> FALSE]

init_achievements ==
    <<Achievement("Quantum Pioneer", <<1, 1000, 0, 0, 0>>),
      Achievement("Particle Magnate", <<1, 2000, 0, 0, 0>>),
      Achievement("Master of Energy", <<1, 5000, 0, 0, 0>>)>>

NoCall == [op |-> "init", target |-> "", ok |-> TRUE, ret |-> <<>>]

Init ==
    /\ cash = D(50)
    /\ prestige_level = 0
    /\ prestige_bonus = D(1)
    /\ total_earnings = D(0)
    /\ particles = init_particles
    /\ upgrades = init_upgrades
    /\ booster_upgrades = init_booster_upgrades
    /\ achievements = init_achievements
    /\ last = NoCall


(***************************************************************************)
(* ParticleType: cost and production.                                      *)
(***************************************************************************)
max_exponent == 1000

\* cost_growth ** (t/10) for the digit 0..9 (at index digit + 1), as the float power
\* gives it, cut after 16 decimals
RootTenth(cost_growth) ==
    CASE cost_growth = D2(1, 15) ->
        <<<<1, 0, 0, 0, 0>>,
          <<1, 140, 7431, 7838, 7931>>,
          <<1, 283, 4672, 2100, 2136>>,
          <<1, 428, 2000, 715, 5330>>,
          <<1, 574, 9698, 854, 2539>>,
          <<1, 723, 8052, 9476, 3608>>,
          <<1, 874, 7355, 3892, 3443>>,
          <<1, 1027, 7900, 2331, 1071>>,
          <<1, 1182, 9986, 4515, 8623>>,
          <<1, 1340, 3917, 2248, 1378>>>>
      [] cost_growth = D2(1, 20) ->
        <<<<1, 0, 0, 0, 0>>,
          <<1, 183, 9937, 6147, 242>>,
          <<1, 371, 3728, 9336, 6481>>,
          <<1, 562, 1996, 8439, 2581>>,
          <<1, 756, 5375, 6932, 5701>>,
          <<1, 954, 4511, 5010, 3322>>,
          <<1, 1156, 62, 1729, 8275>>,
          <<1, 1361, 2697, 7198, 8886>>,
          <<1, 1570, 3100, 4803, 1526>>,
          <<1, 1783, 1965, 3474, 2952>>>>
      [] cost_growth = D2(1, 25) ->
        <<<<1, 0, 0, 0, 0>>,
          <<1, 225, 6518, 2563, 5729>>,
          <<1, 456, 3955, 2591, 2732>>,
          <<1, 692, 3459, 9991, 1880>>,
          <<1, 933, 6207, 3943, 2780>>,
          <<1, 1180, 3398, 8749, 8948>>,
          <<1, 1432, 6262, 9818, 3158>>,
          <<1, 1690, 6055, 9778, 2766>>,
          <<1, 1954, 4062, 4737, 5462>>,
          <<1, 2224, 1596, 678, 6606>>>>

\* cost_growth ** (u/100) for the digit 0..9 (at index digit + 1), as the float power
\* gives it, cut after 16 decimals
RootHundredth(cost_growth) ==
    CASE cost_growth = D2(1, 15) ->
        <<<<1, 0, 0, 0, 0>>,
          <<1, 13, 9859, 6548, 9417>>,
          <<1, 27, 9914, 9170, 1902>>,
          <<1, 42, 166, 599, 5014>>,
          <<1, 56, 613, 3576, 4574>>,
          <<1, 70, 1257, 844, 4721>>,
          <<1, 84, 2097, 5150, 7962>>,
          <<1, 98, 3134, 9246, 5226>>,
          <<1, 112, 4369, 5886, 5920>>,
          <<1, 126, 5801, 7829, 7981>>>>
      [] cost_growth = D2(1, 20) ->
        <<<<1, 0, 0, 0, 0>>,
          <<1, 18, 2487, 8636, 0>>,
          <<1, 36, 5308, 7454, 362>>,
          <<1, 54, 8463, 2531, 2866>>,
          <<1, 73, 1951, 9956, 194>>,
          <<1, 91, 5775, 5827, 6130>>,
          <<1, 109, 9934, 6256, 5766>>,
          <<1, 128, 4429, 7364, 5702>>,
          <<1, 146, 9261, 5284, 4254>>,
          <<1, 165, 4430, 6160, 1649>>>>
      [] cost_growth = D2(1, 25) ->
        <<<<1, 0, 0, 0, 0>>,
          <<1, 22, 3392, 7018, 2330>>,
          <<1, 44, 7284, 4466, 3889>>,
          <<1, 67, 1676, 3492, 7238>>,
          <<1, 89, 6569, 5270, 3983>>,
          <<1, 112, 1965, 997, 5332>>,
          <<1, 134, 7864, 1897, 2648>>,
          <<1, 157, 4267, 9217, 8013>>,
          <<1, 180, 1177, 4232, 4784>>,
          <<1, 202, 8593, 8239, 8157>>>>

RECURSIVE IntPow(_, _)
\* x ** n for a whole n >= 0
IntPow(x, n) == IF n = 0 THEN D(1) ELSE DMul(IntPow(x, n - 1), x)

\* cost_growth ** exponent for an exponent >= 0 of at most two decimals
FloatPow(cost_growth, exponent) ==
    LET hundredths == exponent[2] \div 100
    IN  DMul(DMul(IntPow(cost_growth, exponent[1]),
                  RootTenth(cost_growth)[(hundredths \div 10) + 1]),
             RootHundredth(cost_growth)[(hundredths % 10) + 1])

\* TRUE when x is within 10^-8 of the middle between two neighbouring
\* multiples of 0.01, where the binary value of the float decides round(x, 2)
NearTie(x) ==
    \/ x[2] % 100 = 50 /\ x[3] = 0
    \/ x[2] % 100 = 49 /\ x[3] = Base - 1

\* round(x, 2); `up` is the direction taken near a tie
Round2(x, up) ==
    LET down == <<x[1], x[2] - (x[2] % 100), 0, 0, 0>>
        goUp == IF NearTie(x) THEN up ELSE x[2] % 100 >= 50
    IN  IF goUp THEN DAdd(down, D2(0, 1)) ELSE down

\* a variant of calculate_cost that leaves the growth out
calculate_cost_flat(particle) == D(particle.base_cost)

\* ParticleType.calculate_cost
calculate_cost(particle) ==
    LET exponent == IF DGt(particle.count, D(max_exponent)) THEN D(max_exponent)
                    ELSE particle.count
        raw_cost == DMul(D(particle.base_cost), FloatPow(particle.cost_growth, exponent))
    IN  Round2(raw_cost, (raw_cost[2] \div 100) % 2 = 1)

RECURSIVE production_multiplier(_)
\* 1.05 ** n, the loop over purchased_upgrades
production_multiplier(n) ==
    IF n = 0 THEN D(1) ELSE DMul(production_multiplier(n - 1), D2(1, 5))

\* a variant of calculate_production_per_second without the 1.05 per upgrade
calculate_production_per_second_plain(particle, bonus) ==
    DMul(DMul(particle.count, particle.base_production), bonus)

\* ParticleType.calculate_production_per_second
calculate_production_per_second(particle, bonus) ==
    LET base_production == DMul(DMul(particle.count, particle.base_production), bonus)
    IN  DMul(base_production, production_multiplier(Len(particle.purchased_upgrades)))

\* ParticleType.add_purchased_upgrade
add_purchased_upgrade(particle, upgrade_name) ==
    IF \E i \in 1..Len(particle.purchased_upgrades) :
            particle.purchased_upgrades[i] = upgrade_name
    THEN particle
    ELSE [particle EXCEPT !.purchased_upgrades = Append(@, upgrade_name)]

\* the float product x * y of a base_production, as str() prints it: exact for
\* the products the catalog can form, except 3.0 * 1.15 = 3.4499999999999997
FloatMul(x, y) ==
    IF x = D(3) /\ y = D2(1, 15) THEN <<3, 4499, 9999, 9999, 9997>>
    ELSE DMul(x, y)


(***************************************************************************)
(* GameState: upgrade effects and the two purchase paths.                  *)
(***************************************************************************)
UpgradeLists == {"upgrades", "booster_upgrades"}

UpgradeList(lst) == IF lst = "upgrades" THEN upgrades ELSE booster_upgrades

UpgradeSlots == {<<lst, i>> \in UpgradeLists \X (1..3) : i <= Len(UpgradeList(lst))}

\* the number of upgrades whose purchased flag is set
PurchasedCount == Cardinality({s \in UpgradeSlots : UpgradeList(s[1])[s[2]].unlocked})

\* GameState.apply_upgrade_effect
apply_upgrade_effect(parts, upgrade) ==
    IF upgrade.particle_requirement \in DOMAIN parts
    THEN LET req == upgrade.particle_requirement
             added == [parts EXCEPT ![req] = add_purchased_upgrade(@, upgrade.name)]
         IN  CASE upgrade.name = "Quantum Computing" ->
                    [added EXCEPT ![req].base_production = FloatMul(@, D(2))]
               [] upgrade.name = "Hyperspace Fabrication" ->
                    [added EXCEPT ![req].base_production = D(3)]
               [] upgrade.name = "Gamma Resonance" ->
                    [added EXCEPT ![req].base_production = FloatMul(@, D(4))]
               [] upgrade.name = "Beta Booster" ->
                    [added EXCEPT !["alpha"].base_production = FloatMul(@, D2(1, 10))]
               [] upgrade.name = "Gamma Booster" ->
                    [added EXCEPT !["beta"].base_production = FloatMul(@, D2(1, 15))]
               [] OTHER -> added
    ELSE parts

apply_quantum_computing(parts) ==
    [parts EXCEPT !["alpha"].base_production = FloatMul(@, D(2))]

apply_hyperspace_fabrication(parts) ==
    [parts EXCEPT !["beta"].base_production = FloatMul(@, D(3))]

apply_gamma_resonance(parts) ==
    [parts EXCEPT !["gamma"].base_production = FloatMul(@, D(4))]

apply_beta_booster(parts) ==
    [parts EXCEPT !["alpha"].base_production = FloatMul(@, D2(1, 10))]

apply_gamma_booster(parts) ==
    [parts EXCEPT !["beta"].base_production = FloatMul(@, D2(1, 15))]

\* upgrade.effect(): the bound method stored in the Upgrade
effect(parts, upgrade) ==
    CASE upgrade.effect = "apply_quantum_computing" -> apply_quantum_computing(parts)
      [] upgrade.effect = "apply_hyperspace_fabrication" -> apply_hyperspace_fabrication(parts)
      [] upgrade.effect = "apply_gamma_resonance" -> apply_gamma_resonance(parts)
      [] upgrade.effect = "apply_beta_booster" -> apply_beta_booster(parts)
      [] upgrade.effect = "apply_gamma_booster" -> apply_gamma_booster(parts)

\* a variant of MarkPurchased that leaves the flag as it was
MarkPurchased_forgets(lst, i) == UNCHANGED <<upgrades, booster_upgrades>>

\* the assignment upgrade.unlocked = True on upgrade i of list lst
MarkPurchased(lst, i) ==
    /\ upgrades' = IF lst = "upgrades"
                   THEN [upgrades EXCEPT ![i].unlocked = TRUE] ELSE upgrades
    /\ booster_upgrades' = IF lst = "booster_upgrades"
                           THEN [booster_upgrades EXCEPT ![i].unlocked = TRUE]
                           ELSE booster_upgrades

\* a call that returns without changing the game state
Rejected(op, target, ret) ==
    /\ last' = [op |-> op, target |-> target, ok |-> FALSE, ret |-> ret]
    /\ UNCHANGED <<cash, prestige_level, prestige_bonus, total_earnings, particles,
                   upgrades, booster_upgrades, achievements>>

\* GameState.process_upgrade_purchase(upgrade), upgrade = upgrade i of list lst
process_upgrade_purchase(lst, i) ==
    LET upgrade == UpgradeList(lst)[i]
        op == "process_upgrade_purchase"
        bought(new_cash, parts) ==
            /\ PurchasedCount < MaxUpgrades
            /\ cash' = new_cash
            /\ particles' = apply_upgrade_effect(parts, upgrade)
            /\ MarkPurchased(lst, i)
            /\ last' = [op |-> op, target |-> upgrade.name, ok |-> TRUE, ret |-> <<>>]
            /\ UNCHANGED <<prestige_level, prestige_bonus, total_earnings, achievements>>
    IN  IF upgrade.unlocked THEN Rejected(op, upgrade.name, <<>>)
        ELSE IF upgrade.currency = "cash"
        THEN IF ~DGe(cash, D(upgrade.cost)) THEN Rejected(op, upgrade.name, <<>>)
             ELSE bought(DSub(cash, D(upgrade.cost)), particles)
        ELSE IF upgrade.currency \notin DOMAIN particles
             THEN Rejected(op, upgrade.name, <<>>)
        ELSE IF ~DGe(particles[upgrade.currency].count, D(upgrade.cost))
             THEN Rejected(op, upgrade.name, <<>>)
        ELSE bought(cash, [particles EXCEPT
                              ![upgrade.currency].count = DSub(@, D(upgrade.cost))])

\* a variant of can_afford that skips the comparison
can_afford_unchecked(upgrade) == TRUE

\* can_afford in process_upgrade_click: the balance of the upgrade's currency
\* covers its cost
can_afford(upgrade) ==
    IF upgrade.currency = "cash" THEN DGe(cash, D(upgrade.cost))
    ELSE DGe(particles[upgrade.currency].count, D(upgrade.cost))

\* GameUI.process_upgrade_click(upgrade, ...) with the mouse inside the rectangle
\* of upgrade i of list lst
process_upgrade_click(lst, i) ==
    LET upgrade == UpgradeList(lst)[i]
        op == "process_upgrade_click"
        currency_type == upgrade.currency
    IN  IF upgrade.particle_requirement \notin DOMAIN particles
        THEN Rejected(op, upgrade.name, <<>>)
        ELSE IF ~particles[upgrade.particle_requirement].unlocked
        THEN Rejected(op, upgrade.name, <<>>)
        ELSE IF upgrade.unlocked THEN Rejected(op, upgrade.name, <<>>)
        ELSE IF currency_type # "cash" /\ currency_type \notin DOMAIN particles
        THEN Rejected(op, upgrade.name, <<>>)
        ELSE IF can_afford(upgrade)
        THEN /\ PurchasedCount < MaxUpgrades
             /\ cash' = IF currency_type = "cash" THEN DSub(cash, D(upgrade.cost)) ELSE cash
             /\ particles' =
                    effect(IF currency_type = "cash" THEN particles
                           ELSE [particles EXCEPT
                                    ![currency_type].count = DSub(@, D(upgrade.cost))],
                           upgrade)
             /\ MarkPurchased(lst, i)
             /\ last' = [op |-> op, target |-> upgrade.name, ok |-> TRUE,
                         ret |-> <<"Upgrade purchased">>]
             /\ UNCHANGED <<prestige_level, prestige_bonus, total_earnings, achievements>>
        ELSE Rejected(op, upgrade.name,
                      IF currency_type = "cash" THEN <<"Not enough funds">>
                      ELSE <<"Not enough particles">>)


(***************************************************************************)
(* GameUI.handle_click: the particle buy buttons.                          *)
(***************************************************************************)
RECURSIVE ParticleLoop_ignores_lock(_, _, _, _)
\* a variant of ParticleLoop that sells a locked particle as well
ParticleLoop_ignores_lock(i, y_offset, slot, st) ==
    IF i > Len(Order) THEN st
    ELSE LET key == Order[i]
             particle == st.particles[key]
             cost == calculate_cost(particle)
         IN  IF y_offset = slot
             THEN IF FALSE
                  THEN ParticleLoop_ignores_lock(i + 1, y_offset, slot, st)
                  ELSE IF DGe(st.cash, cost)
                  THEN ParticleLoop_ignores_lock(i + 1, y_offset + 1, slot,
                            [st EXCEPT !.cash = DSub(@, cost),
                                       !.particles[key].count = DAdd(@, D(1)),
                                       !.target = key,
                                       !.ok = TRUE,
                                       !.ret = Append(@, "Acquired")])
                  ELSE ParticleLoop_ignores_lock(i + 1, y_offset + 1, slot,
                            [st EXCEPT !.target = key,
                                       !.ret = Append(@, "Not enough funds")])
             ELSE ParticleLoop_ignores_lock(i + 1, y_offset + 1, slot, st)

RECURSIVE ParticleLoop(_, _, _, _)
\* the loop over self.game.particles.values() for a click on the buy button
\* drawn at row `slot`; y_offset counts rows (row r is y = 90 + 60 * (r - 1))
ParticleLoop(i, y_offset, slot, st) ==
    IF i > Len(Order) THEN st
    ELSE LET key == Order[i]
             particle == st.particles[key]
             cost == calculate_cost(particle)
         IN  IF y_offset = slot
             THEN IF ~particle.unlocked
                  THEN ParticleLoop(i + 1, y_offset, slot, st)
                  ELSE IF DGe(st.cash, cost)
                  THEN ParticleLoop(i + 1, y_offset + 1, slot,
                            [st EXCEPT !.cash = DSub(@, cost),
                                       !.particles[key].count = DAdd(@, D(1)),
                                       !.target = key,
                                       !.ok = TRUE,
                                       !.ret = Append(@, "Acquired")])
                  ELSE ParticleLoop(i + 1, y_offset + 1, slot,
                            [st EXCEPT !.target = key,
                                       !.ret = Append(@, "Not enough funds")])
             ELSE ParticleLoop(i + 1, y_offset + 1, slot, st)

\* the particles whose cost a click on row `slot` evaluates
Priced(slot) ==
    {Order[i] : i \in {j \in slot..Len(Order) :
                          /\ particles[Order[j]].unlocked
                          /\ \A h \in slot..(j - 1) : ~particles[Order[h]].unlocked}}

\* GameUI.handle_click with the mouse on the buy button of row `slot`
buy_button_click(slot) ==
    LET st == ParticleLoop(1, 1, slot,
                           [cash |-> cash, particles |-> particles,
                            target |-> "", ok |-> FALSE, ret |-> <<>>])
    IN  /\ cash' = st.cash
        /\ particles' = st.particles
        /\ last' = [op |-> "handle_click", target |-> st.target, ok |-> st.ok,
                    ret |-> st.ret]
        /\ UNCHANGED <<prestige_level, prestige_bonus, total_earnings,
                       upgrades, booster_upgrades, achievements>>

\* the click on row `slot`, while the count of every particle it prices is at
\* most MaxExponent
handle_click(slot) ==
    /\ \A key \in Priced(slot) : DGe(D(MaxExponent), particles[key].count)
    /\ buy_button_click(slot)

(***************************************************************************)
(* GameState: the economy tick, prestige and achievements.                 *)
(***************************************************************************)
BetaThreshold == 500

GammaThreshold == 5000

PrestigeCost == 1000

RECURSIVE EconomyLoop(_, _, _, _)
\* the loop over self.particles.values(); st holds cash, total_cash_earned and
\* the particles; up[k] is the direction round() takes near a tie for pool k.
\* st.ties collects the pools whose new count was near a tie; st.fits turns
\* FALSE when a product leaves the integers of the model
EconomyLoop(i, st, time_diff, up) ==
    IF i > Len(Order) \/ ~st.fits THEN st
    ELSE LET particle == st.particles[Order[i]]
             production_per_second ==
                 calculate_production_per_second(particle, prestige_bonus)
             produced == DMul(production_per_second, time_diff)
             target == particle.produces
             sum == DAdd(st.particles[target].count, produced)
         IN  IF ~particle.unlocked THEN EconomyLoop(i + 1, st, time_diff, up)
             ELSE IF production_per_second[1] >= (10 ^ 9) \div (Abs(time_diff[1]) + 1)
             THEN [st EXCEPT !.fits = FALSE]
             ELSE IF target = "cash"
             THEN EconomyLoop(i + 1,
                      [st EXCEPT !.cash = DAdd(@, produced),
                                 !.total_cash_earned = DAdd(@, produced)],
                      time_diff, up)
             ELSE IF target \in DOMAIN st.particles
             THEN EconomyLoop(i + 1,
                      [st EXCEPT !.particles[target].count = Round2(sum, up[target]),
                                 !.ties = IF NearTie(sum) THEN @ \cup {target} ELSE @],
                      time_diff, up)
             ELSE EconomyLoop(i + 1, st, time_diff, up)

Pools == {"beta", "gamma"}

\* a variant of crosses that does not look at the unlocked flag
crosses_again(earnings, threshold, particle) == DGe(earnings, D(threshold))

\* a variant of crosses that never unlocks beta
crosses_skips_beta(earnings, threshold, particle) ==
    DGe(earnings, D(threshold)) /\ ~particle.unlocked /\ particle.name # "Beta"

\* the unlock test of update_economy: total_earnings has reached the threshold
\* and the particle is still locked
crosses(earnings, threshold, particle) ==
    DGe(earnings, D(threshold)) /\ ~particle.unlocked

\* GameState.update_economy(time_diff)
update_economy(time_diff) ==
    /\ \A key \in ParticleKeys : DGe(D(MaxCount), particles[key].count)
    /\ LET start == [cash |-> cash, total_cash_earned |-> D(0), particles |-> particles,
                     ties |-> {}, fits |-> time_diff[1] <= 2 * 10 ^ 5]
           down == EconomyLoop(1, start, time_diff, [k \in Pools |-> FALSE])
       IN  \E up \in IF down.ties = {} THEN {[k \in Pools |-> FALSE]} ELSE [Pools -> BOOLEAN] :
             LET st == IF down.ties = {} THEN down ELSE EconomyLoop(1, start, time_diff, up)
                 earnings == DAdd(total_earnings, st.total_cash_earned)
                 beta == crosses(earnings, BetaThreshold, st.particles["beta"])
                 gamma == crosses(earnings, GammaThreshold, st.particles["gamma"])
                 unlock_messages ==
                     (IF beta THEN <<"Beta particles unlocked! >>">> ELSE <<>>)
                     \o (IF gamma THEN <<"Gamma particles unlocked! >>">> ELSE <<>>)
             IN  /\ st.fits
                 /\ DGe(D(MaxEarnings), earnings)
                 /\ cash' = st.cash
                 /\ total_earnings' = earnings
                 /\ particles' = [st.particles EXCEPT
                                     !["beta"].unlocked = @ \/ beta,
                                     !["gamma"].unlocked = @ \/ gamma]
                 /\ last' = [op |-> "update_economy", target |-> "", ok |-> TRUE,
                             ret |-> unlock_messages]
                 /\ UNCHANGED <<prestige_level, prestige_bonus, upgrades, booster_upgrades,
                                achievements>>

\* a variant of reset_counts that rebuilds the particles from the catalog
reset_counts_reinitialises(parts) == init_particles

\* the loop of perform_prestige: particle.count = 0 for every particle
reset_counts(parts) == [key \in DOMAIN parts |-> [parts[key] EXCEPT !.count = D(0)]]

\* a variant of perform_prestige that also resets total_earnings
perform_prestige_resets_earnings ==
    IF DGe(cash, D(PrestigeCost))
    THEN /\ prestige_level' = prestige_level + 1
         /\ prestige_bonus' = DAdd(D(1), DMul(<<0, 1000, 0, 0, 0>>, D(prestige_level + 1)))
         /\ cash' = D(0)
         /\ total_earnings' = D(0)
         /\ particles' = reset_counts(particles)
         /\ last' = [op |-> "perform_prestige", target |-> "", ok |-> TRUE, ret |-> <<>>]
         /\ UNCHANGED <<upgrades, booster_upgrades, achievements>>
    ELSE Rejected("perform_prestige", "", <<>>)

\* a variant of perform_prestige that asks for positive cash only
perform_prestige_any_cash ==
    IF DGt(cash, D(0))
    THEN /\ prestige_level' = prestige_level + 1
         /\ prestige_bonus' = DAdd(D(1), DMul(<<0, 1000, 0, 0, 0>>, D(prestige_level + 1)))
         /\ cash' = D(0)
         /\ particles' = reset_counts(particles)
         /\ last' = [op |-> "perform_prestige", target |-> "", ok |-> TRUE, ret |-> <<>>]
         /\ UNCHANGED <<total_earnings, upgrades, booster_upgrades, achievements>>
    ELSE Rejected("perform_prestige", "", <<>>)

\* GameState.perform_prestige
perform_prestige ==
    IF DGe(cash, D(PrestigeCost))
    THEN /\ prestige_level' = prestige_level + 1
         /\ prestige_bonus' = DAdd(D(1), DMul(<<0, 1000, 0, 0, 0>>, D(prestige_level + 1)))
         /\ cash' = D(0)
         /\ particles' = reset_counts(particles)
         /\ last' = [op |-> "perform_prestige", target |-> "", ok |-> TRUE, ret |-> <<>>]
         /\ UNCHANGED <<total_earnings, upgrades, booster_upgrades, achievements>>
    ELSE Rejected("perform_prestige", "", <<>>)

RECURSIVE SumCounts(_, _)
\* sum(p.count for p in parts.values())
SumCounts(parts, i) ==
    IF i > Len(Order) THEN D(0) ELSE DAdd(parts[Order[i]].count, SumCounts(parts, i + 1))

MagnateCount == 50

MasterEarnings == 1000000

\* achievement.condition(self): the lambdas of init_achievements
condition(achievement) ==
    CASE achievement.name = "Quantum Pioneer" ->
            \E key \in DOMAIN particles : DGt(particles[key].count, D(0))
      [] achievement.name = "Particle Magnate" ->
            DGe(SumCounts(particles, 1), D(MagnateCount))
      [] achievement.name = "Master of Energy" ->
            DGe(total_earnings, D(MasterEarnings))

\* a variant of Unlockable that does not look at the unlocked flag
Unlockable_ignores_unlocked ==
    {i \in 1..Len(achievements) :
        /\ condition(achievements[i])
        /\ \A j \in 1..(i - 1) : ~condition(achievements[j])}

\* a variant of Unlockable that does not stop at the first match
Unlockable_any_order ==
    {i \in 1..Len(achievements) : ~achievements[i].unlocked /\ condition(achievements[i])}

\* the achievements the loop of check_achievements stops at: the first that is
\* locked and whose condition holds
Unlockable ==
    {i \in 1..Len(achievements) :
        /\ ~achievements[i].unlocked /\ condition(achievements[i])
        /\ \A j \in 1..(i - 1) : achievements[j].unlocked \/ ~condition(achievements[j])}

\* GameState.check_achievements
check_achievements ==
    IF Unlockable # {}
    THEN \E i \in Unlockable :
            /\ achievements' = [achievements EXCEPT ![i].unlocked = TRUE]
            /\ prestige_bonus' = DMul(prestige_bonus, achievements[i].reward)
            /\ last' = [op |-> "check_achievements", target |-> achievements[i].name,
                        ok |-> TRUE, ret |-> <<>>]
            /\ UNCHANGED <<cash, prestige_level, total_earnings, particles,
                           upgrades, booster_upgrades>>
    ELSE Rejected("check_achievements", "", <<>>)

Next ==
    \/ \E time_diff \in DtChoices : update_economy(time_diff)
    \/ check_achievements
    \/ perform_prestige
    \/ \E slot \in 1..Len(Order) : handle_click(slot)
    \/ \E s \in UpgradeSlots : process_upgrade_purchase(s[1], s[2])
    \/ \E s \in UpgradeSlots : process_upgrade_click(s[1], s[2])

Spec == Init /\ [][Next]_vars

(***************************************************************************)
(* Properties of the fresh game.                                           *)
(***************************************************************************)
\* the balance an upgrade is paid from
Balance(currency) == IF currency = "cash" THEN cash ELSE particles[currency].count

\* the two calls that try to buy an upgrade
PurchaseOps == {"process_upgrade_purchase", "process_upgrade_click"}

\* cash and every particle count are the same after the step as before it
SameBalances ==
    /\ cash' = cash
    /\ \A key \in ParticleKeys : particles'[key].count = particles[key].count

\* C1: in every reachable state cash and the count of every particle (alpha,
\* beta, gamma) are >= 0
C1_NonNegative ==
    /\ DGe(cash, D(0))
    /\ \A key \in ParticleKeys : DGe(particles[key].count, D(0))

\* a booster upgrade has just been paid out of a particle count, after ticks
\* and particle purchases
C1_Witness ==
    /\ last.ok /\ last.target = "Gamma Booster"
    /\ DGt(particles["gamma"].count, D(0))
    /\ DGt(total_earnings, D(0))

\* C2: total_earnings after each operation is >= its value before, and
\* perform_prestige leaves it unchanged
C2_EarningsNeverDecrease ==
    [][/\ DGe(total_earnings', total_earnings)
       /\ last'.op = "perform_prestige" => total_earnings' = total_earnings]_vars

\* a successful perform_prestige has just run on earnings made by ticks
C2_Witness ==
    /\ last.op = "perform_prestige" /\ last.ok
    /\ DGt(total_earnings, D(0))

\* C3: an attempt to buy a particle that is locked or costs more than cash,
\* and an attempt to buy an upgrade that is already purchased or not covered
\* by the balance of its currency, leave cash and every count as they were
C3_RejectedPurchaseChangesNothing ==
    [][/\ last'.op = "handle_click" =>
            \A slot \in 1..Len(Order) :
               LET particle == particles[Order[slot]]
               IN  /\ handle_click(slot)
                   /\ ~particle.unlocked \/ DGt(calculate_cost(particle), cash)
                   => SameBalances
       /\ last'.op \in PurchaseOps =>
            \A s \in UpgradeSlots :
               LET upgrade == UpgradeList(s[1])[s[2]]
               IN  /\ upgrade.unlocked \/ ~DGe(Balance(upgrade.currency), D(upgrade.cost))
                   /\ \/ process_upgrade_purchase(s[1], s[2])
                      \/ process_upgrade_click(s[1], s[2])
                   => SameBalances]_vars

\* a click on the buy button of an unlocked particle that costs more than cash
\* has just been turned down
C3_Witness ==
    /\ last.op = "handle_click" /\ ~last.ok
    /\ last.target \in ParticleKeys
    /\ particles[last.target].unlocked
    /\ DGe(D(MaxExponent), particles[last.target].count)
    /\ DGt(calculate_cost(particles[last.target]), cash)

\* the upgrades of list lst after the step
UpgradeListNext(lst) == IF lst = "upgrades" THEN upgrades' ELSE booster_upgrades'

\* C4: at most one purchase attempt per upgrade succeeds; once the purchased
\* flag is true every later attempt is rejected without a debit or a second
\* application of the effect, and the flag never returns to false
C4_PurchasedAtMostOnce ==
    [][\A s \in UpgradeSlots :
          LET upgrade == UpgradeList(s[1])[s[2]]
              after == UpgradeListNext(s[1])[s[2]]
          IN  /\ upgrade.unlocked => after.unlocked
              /\ (last'.op \in PurchaseOps /\ last'.ok /\ last'.target = upgrade.name)
                    => ~upgrade.unlocked /\ after.unlocked
              /\ (/\ upgrade.unlocked
                  /\ last'.op \in PurchaseOps
                  /\ \/ process_upgrade_purchase(s[1], s[2])
                     \/ process_upgrade_click(s[1], s[2]))
                    => ~last'.ok /\ cash' = cash /\ particles' = particles]_vars

\* an attempt on an upgrade that was purchased before a prestige has just been
\* rejected
C4_Witness ==
    /\ last.op \in PurchaseOps /\ ~last.ok
    /\ \E s \in UpgradeSlots :
          UpgradeList(s[1])[s[2]].name = last.target /\ UpgradeList(s[1])[s[2]].unlocked
    /\ prestige_level = 1

\* 1 + 0.1 * level
LevelBonus(level) == Normal(1, 1000 * level, 0, 0, 0)

\* C5: a perform_prestige called with cash >= 1000 succeeds, adds exactly 1 to
\* prestige_level, sets prestige_bonus to 1 + 0.1 * prestige_level (1.1 from
\* level 0), sets cash and every count to 0, and leaves the unlocked flags, the
\* purchased_upgrades lists and the upgrades' purchased flags unchanged
C5_PrestigeEffects ==
    [][(last'.op = "perform_prestige" /\ DGe(cash, D(PrestigeCost))) =>
          /\ last'.ok
          /\ prestige_level' = prestige_level + 1
          /\ prestige_bonus' = LevelBonus(prestige_level')
          /\ prestige_level = 0 => prestige_bonus' = <<1, 1000, 0, 0, 0>>
          /\ cash' = D(0)
          /\ \A key \in ParticleKeys :
                /\ particles'[key].count = D(0)
                /\ particles'[key].unlocked = particles[key].unlocked
                /\ particles'[key].purchased_upgrades = particles[key].purchased_upgrades
          /\ \A s \in UpgradeSlots :
                UpgradeListNext(s[1])[s[2]].unlocked = UpgradeList(s[1])[s[2]].unlocked]_vars

\* a prestige has just succeeded in a game with an unlocked beta, a purchased
\* upgrade and a non-empty purchased_upgrades list
C5_Witness ==
    /\ last.op = "perform_prestige" /\ last.ok
    /\ particles["beta"].unlocked
    /\ PurchasedCount > 0
    /\ \E key \in ParticleKeys : particles[key].purchased_upgrades # <<>>

RECURSIVE RewardProduct(_)
\* the product of the rewards of the unlocked achievements from index i on
RewardProduct(i) ==
    IF i > Len(achievements) THEN D(1)
    ELSE DMul(IF achievements[i].unlocked THEN achievements[i].reward ELSE D(1),
              RewardProduct(i + 1))

\* C6: in every reachable state prestige_bonus equals (1 + 0.1 * prestige_level)
\* times the rewards of all unlocked achievements
C6_BonusIsLevelTimesRewards ==
    prestige_bonus = DMul(LevelBonus(prestige_level), RewardProduct(1))

\* the achievements a step unlocks
NewlyUnlocked ==
    {i \in 1..Len(achievements) : ~achievements[i].unlocked /\ achievements'[i].unlocked}

RECURSIVE NewRewards(_)
\* the product of the rewards of the achievements a step unlocks, from index i on
NewRewards(i) ==
    IF i > Len(achievements) THEN D(1)
    ELSE DMul(IF i \in NewlyUnlocked THEN achievements[i].reward ELSE D(1),
              NewRewards(i + 1))

\* C7: a reward is multiplied into prestige_bonus by the check_achievements
\* call that unlocks its achievement and by no other call, in particular not by
\* a later check_achievements; an unlocked achievement stays unlocked
C7_RewardAppliedOnce ==
    [][/\ \A i \in 1..Len(achievements) :
            achievements[i].unlocked => achievements'[i].unlocked
       /\ last'.op = "check_achievements" =>
            prestige_bonus' = DMul(prestige_bonus, NewRewards(1))
       /\ last'.op \notin {"check_achievements", "perform_prestige"} =>
            prestige_bonus' = prestige_bonus /\ NewlyUnlocked = {}]_vars

\* check_achievements has just been called after a prestige while Quantum
\* Pioneer was already unlocked, and has unlocked nothing
C7_Witness ==
    /\ last.op = "check_achievements" /\ ~last.ok
    /\ achievements[1].unlocked
    /\ prestige_level = 1

\* the locked achievements whose condition holds
Pending == {i \in 1..Len(achievements) :
               ~achievements[i].unlocked /\ condition(achievements[i])}

\* C8: a check_achievements call unlocks exactly the first pending achievement
\* in declared order and returns it; with none pending it returns none and
\* changes nothing
C8_OneUnlockPerCall ==
    [][last'.op = "check_achievements" =>
          IF Pending = {}
          THEN /\ ~last'.ok
               /\ UNCHANGED <<cash, prestige_level, prestige_bonus, total_earnings,
                              particles, upgrades, booster_upgrades, achievements>>
          ELSE LET first == CHOOSE i \in Pending : \A j \in Pending : i <= j
               IN  /\ NewlyUnlocked = {first}
                   /\ last'.ok
                   /\ last'.target = achievements[first].name]_vars

\* with two achievements pending, a call has just unlocked Quantum Pioneer and
\* left Particle Magnate pending for the next call
C8_Witness ==
    /\ last.op = "check_achievements" /\ last.ok
    /\ last.target = "Quantum Pioneer"
    /\ 2 \in Pending

\* how often message m occurs in the sequence ret
Occurrences(ret, m) == Cardinality({k \in 1..Len(ret) : ret[k] = m})

\* particle key, unlock threshold and unlock message
Unlocks ==
    {<<"beta", BetaThreshold, "Beta particles unlocked! >>">>,
     <<"gamma", GammaThreshold, "Gamma particles unlocked! >>">>}

\* C9: a locked particle becomes unlocked in the update_economy call that ends
\* with total_earnings at or above its threshold and in no other call; a call
\* returns the particle's unlock message once if it unlocks it and not at all
\* otherwise; an unlocked particle stays unlocked
C9_UnlockOnce ==
    [][\A u \in Unlocks :
          LET was == particles[u[1]].unlocked
              is == particles'[u[1]].unlocked
              reached == last'.op = "update_economy" /\ DGe(total_earnings', D(u[2]))
          IN  /\ was => is
              /\ (~was /\ reached) => is
              /\ (~was /\ is) => reached
              /\ Occurrences(last'.ret, u[3]) = IF ~was /\ is THEN 1 ELSE 0]_vars

\* an update_economy call made after both unlocks and a prestige has just
\* returned no message
C9_Witness ==
    /\ last.op = "update_economy" /\ last.ret = <<>>
    /\ particles["beta"].unlocked /\ particles["gamma"].unlocked
    /\ prestige_level = 1

\* C10: in every reachable state a locked particle has count 0
C10_LockedCountZero ==
    \A key \in ParticleKeys : ~particles[key].unlocked => particles[key].count = D(0)

\* a click on the row of a locked particle has just bought nothing, in a game
\* that has earned cash and still has a locked particle
C10_Witness ==
    /\ last.op = "handle_click" /\ ~last.ok /\ last.ret = <<>>
    /\ ~particles["gamma"].unlocked
    /\ particles["beta"].unlocked
    /\ DGt(particles["alpha"].count, D(0))

(***************************************************************************)
(* The shop: the fresh game played with short ticks, where particles are   *)
(* bought repeatedly and the cost grows.                                   *)
(***************************************************************************)
\* a buy button is modelled while the count of the particle it prices is at
\* most MaxOwned
MaxOwned == 3

\* a tick is modelled while total_earnings stays at most ShopEarnings
ShopEarnings == 150

\* the elapsed times (seconds) of the shop's ticks
ShopDt == {D(0), D(10)}

\* the upgrade the shop sells: Quantum Computing
ShopSlots == {<<"upgrades", 1>>}

ShopClick(slot) ==
    /\ \A key \in Priced(slot) : DGe(D(MaxOwned), particles[key].count)
    /\ buy_button_click(slot)

ShopTick(time_diff) ==
    /\ update_economy(time_diff)
    /\ DGe(D(ShopEarnings), total_earnings')

ShopNext ==
    \/ \E slot \in 1..Len(Order) : ShopClick(slot)
    \/ \E time_diff \in ShopDt : ShopTick(time_diff)
    \/ check_achievements
    \/ \E s \in ShopSlots : process_upgrade_purchase(s[1], s[2])
    \/ \E s \in ShopSlots : process_upgrade_click(s[1], s[2])

SpecShop == Init /\ [][ShopNext]_vars

\* base_cost * cost_growth ** n for a whole count n, unrounded
ExactCost(particle) ==
    DMul(D(particle.base_cost), IntPow(particle.cost_growth, particle.count[1]))

\* c is a whole number of hundredths and lies within 0.005 of x
RoundedTo2(c, x) ==
    /\ c[2] % 100 = 0 /\ c[3] = 0 /\ c[4] = 0 /\ c[5] = 0
    /\ DGe(DAdd(x, <<0, 50, 0, 0, 0>>), c)
    /\ DGe(DAdd(c, <<0, 50, 0, 0, 0>>), x)

\* C11: a click on the buy button of an unlocked particle with cash >= cost,
\* cost being base_cost * cost_growth ** count rounded to 2 decimals at the
\* count before the purchase, takes exactly cost from cash, adds exactly 1 to
\* that particle's count and changes nothing else; from the fresh state
\* buying alpha leaves cash 40 and alpha.count 1
C11_PurchaseEffect ==
    [][last'.op = "handle_click" =>
          \A slot \in 1..Len(Order) :
             LET key == Order[slot]
                 particle == particles[key]
                 cost == calculate_cost(particle)
             IN  (/\ buy_button_click(slot)
                  /\ particle.unlocked
                  /\ DGe(cash, cost))
                 => /\ RoundedTo2(cost, ExactCost(particle))
                    /\ cash' = DSub(cash, cost)
                    /\ particles' = [particles EXCEPT ![key].count = DAdd(@, D(1))]
                    /\ last'.ok /\ last'.target = key
                    /\ UNCHANGED <<prestige_level, prestige_bonus, total_earnings,
                                   upgrades, booster_upgrades, achievements>>
                    /\ (cash = D(50) /\ key = "alpha" /\ particle.count = D(0))
                          => cash' = D(40) /\ particles'["alpha"].count = D(1)]_vars

\* alpha has just been bought for the third time, at a cost that has grown twice
C11_Witness ==
    /\ last.op = "handle_click" /\ last.ok /\ last.target = "alpha"
    /\ particles["alpha"].count = D(3)

RECURSIVE CashProduction(_, _)
\* the sum, over the unlocked particles from index i on that produce cash, of
\* count * base_production * prestige_bonus * 1.05 ** (purchased upgrades) * dt
CashProduction(i, dt) ==
    IF i > Len(Order) THEN D(0)
    ELSE LET particle == particles[Order[i]]
             rate == DMul(DMul(DMul(particle.count, particle.base_production),
                               prestige_bonus),
                          IntPow(D2(1, 5), Len(particle.purchased_upgrades)))
         IN  DAdd(IF particle.unlocked /\ particle.produces = "cash"
                  THEN DMul(rate, dt) ELSE D(0),
                  CashProduction(i + 1, dt))

\* C12: update_economy(dt) adds to cash and to total_earnings the same amount,
\* the sum over the unlocked cash producers of count * base_production *
\* prestige_bonus * 1.05 ** (number of purchased upgrades) * dt; with
\* alpha.count 1, base_production 1.0, prestige_bonus 1.0, no purchased
\* upgrade and dt = 10 both grow by exactly 10
C12_TickProduction ==
    [][last'.op = "update_economy" =>
          \A dt \in ShopDt :
             update_economy(dt) =>
                /\ cash' = DAdd(cash, CashProduction(1, dt))
                /\ total_earnings' = DAdd(total_earnings, CashProduction(1, dt))
                /\ DSub(cash', cash) = DSub(total_earnings', total_earnings)
                /\ (/\ dt = D(10)
                    /\ particles["alpha"].count = D(1)
                    /\ particles["alpha"].base_production = D(1)
                    /\ particles["alpha"].purchased_upgrades = <<>>
                    /\ prestige_bonus = D(1))
                      => /\ cash' = DAdd(cash, D(10))
                         /\ total_earnings' = DAdd(total_earnings, D(10))]_vars

\* a tick has run with a purchased upgrade counted in alpha's multiplier and
\* an achievement reward in prestige_bonus: only such a tick earns a fraction
C12_Witness ==
    /\ last.op = "update_economy"
    /\ particles["alpha"].purchased_upgrades # <<>>
    /\ prestige_bonus = <<1, 1000, 0, 0, 0>>
    /\ total_earnings[2] # 0

Names(seq) == {seq[i] : i \in DOMAIN seq}

\* C13: in every reachable state each purchased upgrade's name is in the
\* purchased_upgrades of its target particle (particle_requirement), whichever
\* purchase path set the flag
C13_PurchasedIsRecorded ==
    \A s \in UpgradeSlots :
       LET upgrade == UpgradeList(s[1])[s[2]]
       IN  upgrade.unlocked =>
              upgrade.name \in Names(particles[upgrade.particle_requirement].purchased_upgrades)

\* the base_production the fixed table gives particle key, whose rate was bp,
\* after a purchase of the upgrade called name
TableProduction(name, key, bp) ==
    CASE name = "Quantum Computing" /\ key = "alpha" -> FloatMul(bp, D(2))
      [] name = "Hyperspace Fabrication" /\ key = "beta" -> D(3)
      [] name = "Gamma Resonance" /\ key = "gamma" -> FloatMul(bp, D(4))
      [] name = "Beta Booster" /\ key = "alpha" -> FloatMul(bp, D2(1, 10))
      [] name = "Gamma Booster" /\ key = "beta" -> FloatMul(bp, D2(1, 15))
      [] OTHER -> bp

\* C14: a successful upgrade purchase, through either path, changes the
\* base_production of the particles exactly as the fixed table says; in
\* particular Hyperspace Fabrication leaves beta.base_production at 3.0
C14_EffectTable ==
    [][(last'.op \in PurchaseOps /\ last'.ok) =>
          \A key \in ParticleKeys :
             particles'[key].base_production =
                TableProduction(last'.target, key, particles[key].base_production)]_vars

\* C15: an upgrade purchase through either path succeeds only if the upgrade's
\* target particle is unlocked; while it is locked the attempt is rejected and
\* the state is unchanged
C15_LockedTargetRejects ==
    [][last'.op \in PurchaseOps =>
          \A s \in UpgradeSlots :
             LET upgrade == UpgradeList(s[1])[s[2]]
             IN  (/\ last'.target = upgrade.name
                  /\ ~particles[upgrade.particle_requirement].unlocked)
                    => /\ ~last'.ok
                       /\ UNCHANGED <<cash, prestige_level, prestige_bonus, total_earnings,
                                      particles, upgrades, booster_upgrades, achievements>>]_vars

\* C18: perform_prestige succeeds exactly when cash >= 1000; with less cash it
\* returns False and leaves prestige_level, prestige_bonus, cash, every
\* particle and total_earnings as they were
C18_PrestigeGuard ==
    [][last'.op = "perform_prestige" =>
          /\ last'.ok <=> DGe(cash, D(1000))
          /\ ~DGe(cash, D(1000)) =>
                UNCHANGED <<cash, prestige_level, prestige_bonus, total_earnings,
                            particles, upgrades, booster_upgrades, achievements>>]_vars

\* perform_prestige has just been refused in a game that has earned cash and
\* spent it below the price
C18_Witness ==
    /\ last.op = "perform_prestige"
    /\ ~last.ok
    /\ DGt(total_earnings, D(1000))
    /\ DGt(cash, D(0))
    /\ prestige_level = 0

(***************************************************************************)
(* The game under a clock that can be set back: run() calls               *)
(* update_economy() with time_diff = time.time() - last_update, which is   *)
(* negative when the system clock moved backwards since the last update.   *)
(***************************************************************************)
\* the values of time_since_last_update(), in seconds
ClockDt == {D(-10), D(10)}

ClockTick(time_diff) ==
    /\ update_economy(time_diff)
    /\ DGe(D(ShopEarnings), total_earnings')
    /\ DGe(total_earnings', D(-ShopEarnings))

ClockNext ==
    \/ \E slot \in 1..Len(Order) : ShopClick(slot)
    \/ \E time_diff \in ClockDt : ClockTick(time_diff)

SpecClock == Init /\ [][ClockNext]_vars

\* C17: update_economy clamps the elapsed time at 0 from below: a call with a
\* negative elapsed time decreases neither cash, total_earnings nor any
\* particle count
C17_NoLossOnClockSetBack ==
    [][last'.op = "update_economy" =>
          /\ DGe(cash', cash)
          /\ DGe(total_earnings', total_earnings)
          /\ \A key \in ParticleKeys : DGe(particles'[key].count, particles[key].count)]_vars

(***************************************************************************)
(* Persistence: GameState.to_dict / save and GameState.load.               *)
(*                                                                         *)
(* A save file is [kind |-> "missing"] (no file), [kind |-> "text"]        *)
(* (not JSON), [kind |-> "array"] (JSON, not an object) or                 *)
(* [kind |-> "object", dict |-> d], d a function from keys to values.      *)
(* Floats go through json unchanged (repr is exact); the one lossy step is *)
(* float(Decimal) in to_dict.  last_update, which load overwrites with the *)
(* time of the load, is not a variable of the model.  A loaded particle    *)
(* dict is iterated in the catalog order.                                  *)
(***************************************************************************)
RECURSIVE IntDigits(_)
\* the number of digits of the whole number n >= 1
IntDigits(n) == IF n < 10 THEN 1 ELSE 1 + IntDigits(n \div 10)

\* decimal digit p (1 .. 16) of x
Digit(x, p) == (x[2 + ((p - 1) \div 4)] \div (10 ^ (3 - ((p - 1) % 4)))) % 10

\* the position of the last nonzero decimal of x, 0 if there is none
Decimals(x) ==
    LET used == {p \in 1..16 : Digit(x, p) # 0}
    IN  IF used = {} THEN 0 ELSE CHOOSE p \in used : \A q \in used : q <= p

\* the number of significant digits of x >= 0
Digits(x) ==
    IF x[1] # 0 THEN IntDigits(x[1]) + Decimals(x)
    ELSE LET used == {p \in 1..16 : Digit(x, p) # 0}
         IN  IF used = {} THEN 0
             ELSE Decimals(x) + 1 - (CHOOSE p \in used : \A q \in used : p <= q)

\* 10 ** -p as a Dec, p in 0 .. 16
Unit(p) ==
    IF p = 0 THEN D(1)
    ELSE LET limb == 2 + ((p - 1) \div 4)
             u == 10 ^ (3 - ((p - 1) % 4))
         IN  <<0, IF limb = 2 THEN u ELSE 0, IF limb = 3 THEN u ELSE 0,
               IF limb = 4 THEN u ELSE 0, IF limb = 5 THEN u ELSE 0>>

\* x with the decimals after the p-th dropped
Truncate(x, p) ==
    LET cut(limb) ==
            IF p >= 4 * (limb - 1) THEN x[limb]
            ELSE IF p <= 4 * (limb - 2) THEN 0
            ELSE x[limb] - (x[limb] % (10 ^ (4 * (limb - 1) - p)))
    IN  <<x[1], cut(2), cut(3), cut(4), cut(5)>>

\* how far, in units of its 17th significant digit, the printed double can lie
\* from the decimal it was made of: less than one ulp, at most 2 ** -52 of the
\* value, which is below 23 units of the 17th digit
FloatSlack == 23

\* float(x) for a Decimal x >= 0, as the Decimals that str() of the double can
\* give back.  A double holds every decimal of at most 15 significant digits
\* exactly; of a longer one it keeps a value of at most 17 significant digits
\* within one ulp, and which one depends on the binary expansion
float(x) ==
    IF Digits(x) <= 15 THEN {x}
    ELSE LET kept == IF x[1] = 0 THEN 16 ELSE 17 - IntDigits(x[1])
             near == {DAdd(Truncate(x, kept), DMul(D(j), Unit(kept))) :
                         j \in (0 - FloatSlack)..FloatSlack}
         IN  IF Digits(x) <= 17 THEN near
             ELSE near \ {x}

\* ParticleType.to_dict
ParticleType_to_dict(particle) ==
    [name |-> particle.name, base_cost |-> particle.base_cost,
     cost_growth |-> particle.cost_growth,
     base_production |-> particle.base_production, produces |-> particle.produces,
     color |-> "rgb", count |-> particle.count, unlocked |-> particle.unlocked,
     purchased_upgrades |-> particle.purchased_upgrades]

\* the keys ParticleType.from_dict reads with data[...]
ParticleRequired ==
    {"name", "base_cost", "cost_growth", "base_production", "produces", "color", "count"}

\* ParticleType.from_dict, for data that has the required keys
ParticleType_from_dict(data) ==
    [name |-> data.name, base_cost |-> data.base_cost, cost_growth |-> data.cost_growth,
     base_production |-> data.base_production, produces |-> data.produces,
     count |-> data.count,
     unlocked |-> IF "unlocked" \in DOMAIN data THEN data.unlocked ELSE TRUE,
     purchased_upgrades |-> IF "purchased_upgrades" \in DOMAIN data
                            THEN data.purchased_upgrades ELSE <<>>]

\* Upgrade.to_dict
Upgrade_to_dict(upgrade) ==
    [name |-> upgrade.name, cost |-> upgrade.cost,
     particle_requirement |-> upgrade.particle_requirement,
     currency |-> upgrade.currency, unlocked |-> upgrade.unlocked]

\* Achievement.to_dict
Achievement_to_dict(achievement) ==
    [name |-> achievement.name, reward |-> achievement.reward,
     unlocked |-> achievement.unlocked]

\* GameState.to_dict, c, b and t being float(self.cash), float(self.prestige_bonus)
\* and float(self.total_earnings)
to_dict(c, b, t) ==
    [cash |-> c, prestige_level |-> prestige_level, prestige_bonus |-> b,
     total_earnings |-> t,
     particles |-> [name \in DOMAIN particles |-> ParticleType_to_dict(particles[name])],
     upgrades |-> [i \in DOMAIN upgrades |-> Upgrade_to_dict(upgrades[i])],
     booster_upgrades |->
         [i \in DOMAIN booster_upgrades |-> Upgrade_to_dict(booster_upgrades[i])],
     achievements |-> [i \in DOMAIN achievements |-> Achievement_to_dict(achievements[i])]]

\* the particles ensure_default_particles puts in for a missing key
default_particles ==
    ("alpha" :> ParticleType("Alpha", 10, D2(1, 15), D(1), "cash", TRUE))
    @@ ("beta" :> ParticleType("Beta", 50, D2(1, 20), D(3), "beta", FALSE))
    @@ ("gamma" :> ParticleType("Gamma", 250, D2(1, 25), D(10), "gamma", FALSE))

\* self.particles after the dict comprehension of load and
\* ensure_default_particles, particles_data having the required keys
ensure_default_particles(particles_data) ==
    LET loaded(key) == IF key \in DOMAIN particles_data
                       THEN ParticleType_from_dict(particles_data[key])
                       ELSE default_particles[key]
    IN  ("alpha" :> loaded("alpha")) @@ ("beta" :> loaded("beta"))
        @@ ("gamma" :> loaded("gamma"))

RECURSIVE load_flags(_, _, _)
\* _load_upgrades and _load_achievements from saved entry i on: the flag of the
\* first item of lst with the entry's name is set from the entry; raised tells
\* that an entry lacked a key the loop reads (KeyError)
load_flags(saved, lst, i) ==
    IF i > Len(saved) THEN [list |-> lst, raised |-> FALSE]
    ELSE IF "name" \notin DOMAIN saved[i] THEN [list |-> lst, raised |-> TRUE]
    ELSE LET hits == {j \in DOMAIN lst : lst[j].name = saved[i].name}
             first == CHOOSE j \in hits : \A k \in hits : j <= k
         IN  IF hits = {} THEN load_flags(saved, lst, i + 1)
             ELSE IF "unlocked" \notin DOMAIN saved[i]
             THEN [list |-> lst, raised |-> TRUE]
             ELSE load_flags(saved, [lst EXCEPT ![first].unlocked = saved[i].unlocked],
                             i + 1)

\* data.get(key, default)
Get(data, key, default) == IF key \in DOMAIN data THEN data[key] ELSE default

\* GameState.load() on a GameState just constructed, the save file being file
load(file, source) ==
    LET untouched ==
            /\ cash' = D(50)
            /\ prestige_level' = 0
            /\ prestige_bonus' = D(1)
            /\ total_earnings' = D(0)
            /\ particles' = init_particles
            /\ upgrades' = init_upgrades
            /\ booster_upgrades' = init_booster_upgrades
            /\ achievements' = init_achievements
            /\ last' = [op |-> "load", target |-> source, ok |-> FALSE, ret |-> <<>>]
    IN  IF file.kind # "object" THEN untouched
        ELSE IF DOMAIN file.dict = {} THEN untouched
        ELSE LET data == file.dict
                 particles_data == Get(data, "particles", <<>>)
                 read == \A name \in DOMAIN particles_data :
                             ParticleRequired \subseteq DOMAIN particles_data[name]
                 ups == IF read THEN load_flags(Get(data, "upgrades", <<>>), init_upgrades, 1)
                        ELSE [list |-> init_upgrades, raised |-> TRUE]
                 boosters ==
                     IF ~ups.raised
                     THEN load_flags(Get(data, "booster_upgrades", <<>>),
                                     init_booster_upgrades, 1)
                     ELSE [list |-> init_booster_upgrades, raised |-> TRUE]
                 achieved ==
                     IF ~boosters.raised
                     THEN load_flags(Get(data, "achievements", <<>>), init_achievements, 1)
                     ELSE [list |-> init_achievements, raised |-> TRUE]
             IN  /\ cash' = Get(data, "cash", D(50))
                 /\ prestige_level' = Get(data, "prestige_level", 0)
                 /\ prestige_bonus' = Get(data, "prestige_bonus", D(1))
                 /\ total_earnings' = Get(data, "total_earnings", D(0))
                 /\ particles' = IF read THEN ensure_default_particles(particles_data)
                                 ELSE init_particles
                 /\ upgrades' = ups.list
                 /\ booster_upgrades' = boosters.list
                 /\ achievements' = achieved.list
                 /\ last' = [op |-> "load", target |-> source, ok |-> ~achieved.raised,
                             ret |-> <<>>]

\* d without the key
Without(d, key) == [k \in DOMAIN d \ {key} |-> d[k]]

\* what to_dict gives in the frame the first alpha is bought in (the S key saves
\* after the click, before the next update_economy and check_achievements)
PlayedSave ==
    [cash |-> D(40), prestige_level |-> 0, prestige_bonus |-> D(1),
     total_earnings |-> D(0),
     particles |->
         [name \in ParticleKeys |->
             ParticleType_to_dict(IF name = "alpha"
                                  THEN [init_particles[name] EXCEPT !.count = D(1)]
                                  ELSE init_particles[name])],
     upgrades |-> [i \in DOMAIN init_upgrades |-> Upgrade_to_dict(init_upgrades[i])],
     booster_upgrades |->
         [i \in DOMAIN init_booster_upgrades |-> Upgrade_to_dict(init_booster_upgrades[i])],
     achievements |->
         [i \in DOMAIN init_achievements |-> Achievement_to_dict(init_achievements[i])]]

Object(d) == [kind |-> "object", dict |-> d]

\* the save files the game is started on
SaveFiles ==
    <<[kind |-> "missing"],
      [kind |-> "text"],
      [kind |-> "array"],
      Object(<<>>),
      Object(PlayedSave),
      Object(Without(PlayedSave, "cash")),
      Object([PlayedSave EXCEPT !.particles = Without(@, "beta")]),
      Object([PlayedSave EXCEPT !.particles.gamma = Without(@, "count")]),
      Object([PlayedSave EXCEPT !.upgrades[1] = Without(@, "name")]),
      Object([PlayedSave EXCEPT !.achievements[1] = Without(@, "unlocked")])>>

\* one frame's time_since_last_update(), in seconds
FrameDt == <<0, 166, 8858, 5281, 3720>>

MaxFrames == 1

\* update_economy() of a frame, the earnings past a whole number kept within
\* MaxFrames frames of one alpha under the Quantum Pioneer reward
FrameTick ==
    /\ update_economy(FrameDt)
    /\ total_earnings'[1] = total_earnings[1]
    /\ DGe(DMul(DMul(D(MaxFrames), <<1, 1000, 0, 0, 0>>), FrameDt),
           DSub(total_earnings', D(total_earnings'[1])))

\* main: GameState() and load() before the first frame
Startup == /\ last = NoCall
           /\ \E f \in DOMAIN SaveFiles : load(SaveFiles[f], "file")

\* run() leaves its loop and saves; the program is started again and loads
\* what was saved.  Every frame starts with update_economy(); the frame the
\* game is left in is one without a click.
Restart ==
    /\ last.op = "update_economy"
    /\ \E c \in float(cash), b \in float(prestige_bonus), t \in float(total_earnings) :
          load(Object(to_dict(c, b, t)), "save")

LoadNext ==
    \/ Startup
    \/ \E slot \in 1..Len(Order) : ShopClick(slot)
    \/ FrameTick
    \/ check_achievements
    \/ Restart

SpecLoad == Init /\ [][LoadNext]_vars

\* C16: in every reachable state in which Hyperspace Fabrication has not been
\* purchased beta.base_production is 0, so that update_economy adds nothing to
\* beta's count; this includes the states load reaches from a save without a
\* beta entry
C16_BetaRateGated ==
    ~upgrades[2].unlocked => particles["beta"].base_production = D(0)

\* C19: saving a reachable state and loading the result into a new GameState
\* gives back an equal cash, prestige_level, prestige_bonus and
\* total_earnings, equal particles, and the same purchased and unlocked flags
C19_RoundTrip ==
    [][(last'.op = "load" /\ last'.target = "save") =>
          /\ cash' = cash
          /\ prestige_level' = prestige_level
          /\ prestige_bonus' = prestige_bonus
          /\ total_earnings' = total_earnings
          /\ particles' = particles
          /\ upgrades' = upgrades
          /\ booster_upgrades' = booster_upgrades
          /\ achievements' = achievements]_vars

\* the keys an upgrade or achievement entry of a save must have
EntryRequired == {"name", "unlocked"}

\* the file is missing or malformed at some level: not JSON, not an object, or
\* an object with a particle, upgrade or achievement entry that lacks a
\* required key
Malformed(file) ==
    \/ file.kind # "object"
    \/ /\ file.kind = "object"
       /\ LET data == file.dict
              entries(key) == Get(data, key, <<>>)
          IN  \/ \E name \in DOMAIN entries("particles") :
                    ~(ParticleRequired \subseteq DOMAIN entries("particles")[name])
              \/ \E key \in {"upgrades", "booster_upgrades", "achievements"} :
                    \E i \in DOMAIN entries(key) :
                       ~(EntryRequired \subseteq DOMAIN entries(key)[i])

\* the state of a GameState just constructed
FreshDefault ==
    /\ cash' = D(50)
    /\ prestige_level' = 0
    /\ prestige_bonus' = D(1)
    /\ total_earnings' = D(0)
    /\ particles' = init_particles
    /\ upgrades' = init_upgrades
    /\ booster_upgrades' = init_booster_upgrades
    /\ achievements' = init_achievements

\* C20: after load on a missing or malformed save file the game is in the
\* fresh default state, never in a partially loaded one; a well-formed save
\* that only lacks the top-level key cash gives cash 50 and loads the rest
C20_LoadAllOrNothing ==
    [][(last'.op = "load" /\ last'.target = "file") =>
          \A f \in DOMAIN SaveFiles :
             load(SaveFiles[f], "file") =>
                /\ Malformed(SaveFiles[f]) => FreshDefault
                /\ (/\ ~Malformed(SaveFiles[f])
                    /\ DOMAIN SaveFiles[f].dict # {}
                    /\ "cash" \notin DOMAIN SaveFiles[f].dict)
                      => /\ cash' = D(50)
                         /\ total_earnings' = SaveFiles[f].dict.total_earnings
                         /\ particles'["alpha"].count =
                               SaveFiles[f].dict.particles["alpha"].count]_vars

\* the names of the items of a list of upgrades or achievements
ItemNames(lst) == [i \in DOMAIN lst |-> lst[i].name]

\* C21: after load of a save object the state holds every catalog entry
\* (alpha, beta, gamma, the three upgrades, the two booster upgrades, the three
\* achievements), and a particle that the save does not mention is there with
\* the values it has in a fresh game
C21_CatalogAfterLoad ==
    [][(last'.op = "load" /\ last'.target = "file") =>
          \A f \in DOMAIN SaveFiles :
             (load(SaveFiles[f], "file") /\ SaveFiles[f].kind = "object") =>
                /\ DOMAIN particles' = ParticleKeys
                /\ ItemNames(upgrades') = ItemNames(init_upgrades)
                /\ ItemNames(booster_upgrades') = ItemNames(init_booster_upgrades)
                /\ ItemNames(achievements') = ItemNames(init_achievements)
                /\ \A key \in ParticleKeys :
                      key \notin DOMAIN Get(SaveFiles[f].dict, "particles", <<>>)
                         => particles'[key] = init_particles[key]]_vars

(***************************************************************************)
(* GameUI.run: the frame loop.  One iteration calls update_economy(), then *)
(* check_achievements(), then handles the events of the frame: a mouse     *)
(* click (prestige button, particle button or upgrade row) or the S key    *)
(* (save).  The last call made tells where in the iteration the loop is.   *)
(***************************************************************************)
EventOps == {"handle_click", "process_upgrade_click", "perform_prestige", "save"}

\* the loop is at `while running`: nothing called yet, or the events of the
\* previous frame (if any) handled
AtLoopTop == last.op \in {"init", "check_achievements"} \cup EventOps

\* update_economy() has returned and check_achievements() comes next
AfterTick == last.op = "update_economy"

\* a variant of InEventLoop that takes events before the achievement check
InEventLoop_early == last.op \in {"update_economy", "check_achievements"} \cup EventOps

\* the loop is at `for event in pygame.event.get()`
InEventLoop == last.op \in {"check_achievements"} \cup EventOps

\* GameState.save(): the state is written out and stays as it is
save ==
    /\ last' = [op |-> "save", target |-> "", ok |-> TRUE, ret |-> <<>>]
    /\ UNCHANGED <<cash, prestige_level, prestige_bonus, total_earnings, particles,
                   upgrades, booster_upgrades, achievements>>

RunNext ==
    \/ AtLoopTop /\ \E time_diff \in DtChoices : update_economy(time_diff)
    \/ AfterTick /\ check_achievements
    \/ InEventLoop /\ \E slot \in 1..Len(Order) : handle_click(slot)
    \/ InEventLoop /\ \E s \in UpgradeSlots : process_upgrade_click(s[1], s[2])
    \/ InEventLoop /\ perform_prestige
    \/ InEventLoop /\ save

SpecRun == Init /\ [][RunNext]_vars

\* C22: in every iteration of the main loop update_economy comes first, then
\* check_achievements, then the transactions of the frame (particle purchase,
\* upgrade purchase, prestige, save): the achievement check directly follows
\* the tick, and a transaction follows the achievement check or another
\* transaction of the same frame, never the tick
C22_FrameOrder ==
    [][/\ last'.op = "check_achievements" => last.op = "update_economy"
       /\ last'.op \in EventOps => last.op \in {"check_achievements"} \cup EventOps
       /\ last'.op = "update_economy" => last.op # "update_economy"]_vars

\* a particle bought with cash of an earlier tick, in a frame whose tick and
\* achievement check are done
C22_Witness ==
    /\ last.op = "handle_click"
    /\ last.ok
    /\ DGt(total_earnings, D(0))
    /\ achievements[1].unlocked

\* C23: no soft-lock: in every reachable state of a game in which an alpha has
\* been bought (one is owned, or a prestige, which costs 1000 earned cash, has
\* been made) cash can grow again: either an alpha is affordable now or the
\* cash production per second is positive, so that ticks will make it so
C23_NoSoftLock ==
    (DGt(particles["alpha"].count, D(0)) \/ prestige_level > 0)
       => \/ DGe(cash, calculate_cost(particles["alpha"]))
          \/ DGt(CashProduction(1, D(1)), D(0))

\* what GameState.process_upgrade_purchase(upgrade) does in the current state:
\* whether it accepts, and the cash and the particles it leaves
PurchaseAccepts(upgrade) == ~upgrade.unlocked /\ can_afford(upgrade)

PurchaseCash(upgrade) ==
    IF upgrade.currency = "cash" THEN DSub(cash, D(upgrade.cost)) ELSE cash

PurchaseParticles(upgrade) ==
    apply_upgrade_effect(IF upgrade.currency = "cash" THEN particles
                         ELSE [particles EXCEPT
                                  ![upgrade.currency].count = DSub(@, D(upgrade.cost))],
                         upgrade)

\* C24: from a state in which the upgrade's target particle is unlocked, a
\* click on the upgrade in the UI is accepted exactly when
\* process_upgrade_purchase would accept it, and an accepted click leaves the
\* cash, the particles (counts, base_production, purchased_upgrades) and the
\* upgrade's flag that process_upgrade_purchase would leave
C24_PathsAgree ==
    [][last'.op = "process_upgrade_click" =>
          \A s \in UpgradeSlots :
             LET upgrade == UpgradeList(s[1])[s[2]]
             IN  (/\ process_upgrade_click(s[1], s[2])
                  /\ particles[upgrade.particle_requirement].unlocked)
                    => /\ last'.ok <=> PurchaseAccepts(upgrade)
                       /\ last'.ok => /\ cash' = PurchaseCash(upgrade)
                                      /\ particles' = PurchaseParticles(upgrade)
                                      /\ UpgradeListNext(s[1])[s[2]].unlocked]_vars

\* the base_production of every particle of parts
Rates(parts) == [key \in ParticleKeys |-> parts[key].base_production]

\* what the two upgrades cost together in the currency (cash or a particle key)
CostIn(currency, first, second) ==
    (IF first.currency = currency THEN first.cost ELSE 0)
    + (IF second.currency = currency THEN second.cost ELSE 0)

\* both upgrades are still to be bought and the balances cover the two costs,
\* so that process_upgrade_purchase accepts them in either order
BothPurchasable(first, second) ==
    /\ ~first.unlocked
    /\ ~second.unlocked
    /\ DGe(cash, D(CostIn("cash", first, second)))
    /\ \A key \in ParticleKeys :
          DGe(particles[key].count, D(CostIn(key, first, second)))

\* C25: upgrade effects commute: from a state in which two upgrades can both
\* be purchased, every particle's base_production after the two purchases
\* (apply_upgrade_effect of one, then of the other) is the same in both orders
C25_EffectsCommute ==
    \A s \in UpgradeSlots, t \in UpgradeSlots :
       LET first == UpgradeList(s[1])[s[2]]
           second == UpgradeList(t[1])[t[2]]
       IN  (s # t /\ BothPurchasable(first, second))
              => Rates(apply_upgrade_effect(apply_upgrade_effect(particles, first), second))
                 = Rates(apply_upgrade_effect(apply_upgrade_effect(particles, second), first))

(***************************************************************************)
(* The game with long absences: a tick can take total_earnings over both   *)
(* unlock thresholds at once.                                              *)
(***************************************************************************)
LeapDt == {D(400), D(6000)}

LeapNext ==
    \/ \E slot \in 1..Len(Order) : handle_click(slot)
    \/ \E time_diff \in LeapDt : update_economy(time_diff)
    \/ check_achievements
    \/ perform_prestige

SpecLeap == Init /\ [][LeapNext]_vars

\* C27: without load gamma is never unlocked while beta is locked; an
\* update_economy call that takes total_earnings from below 500 to 5000 or
\* more unlocks both and returns the beta message before the gamma message
C27_GammaAfterBeta ==
    [][/\ particles'["gamma"].unlocked => particles'["beta"].unlocked
       /\ (/\ last'.op = "update_economy"
           /\ ~DGe(total_earnings, D(500))
           /\ DGe(total_earnings', D(5000)))
             => /\ particles'["beta"].unlocked
                /\ particles'["gamma"].unlocked
                /\ last'.ret = <<"Beta particles unlocked! >>",
                                 "Gamma particles unlocked! >>">>]_vars

\* one call has just unlocked both particles
C27_Witness ==
    /\ last.op = "update_economy"
    /\ last.ret = <<"Beta particles unlocked! >>", "Gamma particles unlocked! >>">>
    /\ particles["gamma"].unlocked

(***************************************************************************)
(* The pools under long and short frames: update_economy with 3000 s and   *)
(* with 0.0001 s of elapsed time.                                          *)
(***************************************************************************)
PoolDt == {D(3000), <<0, 1, 0, 0, 0>>}

MaxDrift == 3

\* update_economy(time_diff), the earnings past a whole number kept within
\* MaxDrift ten-thousandths
PoolTick(time_diff) ==
    /\ update_economy(time_diff)
    /\ DGe(<<0, MaxDrift, 0, 0, 0>>, DSub(total_earnings', D(total_earnings'[1])))

PoolNext ==
    \/ \E slot \in 1..Len(Order) : handle_click(slot)
    \/ \E time_diff \in PoolDt : PoolTick(time_diff)
    \/ check_achievements

SpecPool == Init /\ [][PoolNext]_vars

\* the loop of update_economy(time_diff) run on cash c and particles parts
TickResult(c, parts, time_diff, up) ==
    EconomyLoop(1, [cash |-> c, total_cash_earned |-> D(0), particles |-> parts,
                    ties |-> {}, fits |-> TRUE], time_diff, up)

\* C26: update_economy(d1) followed at once by update_economy(d2) leaves the
\* same cash, total_earnings and particle counts as one update_economy(d1 + d2)
\* from the same state, whichever way round() goes near a tie
C26_TickRateIndependent ==
    [][last'.op = "update_economy" =>
          \A d1 \in PoolDt, d2 \in PoolDt :
             update_economy(d1) =>
                \E up1 \in [Pools -> BOOLEAN], up2 \in [Pools -> BOOLEAN] :
                   LET two == TickResult(cash', particles', d2, up1)
                       one == TickResult(cash, particles, DAdd(d1, d2), up2)
                   IN  (two.fits /\ one.fits) =>
                          /\ two.cash = one.cash
                          /\ DAdd(total_earnings', two.total_cash_earned)
                                = DAdd(total_earnings, one.total_cash_earned)
                          /\ \A key \in ParticleKeys :
                                two.particles[key].count = one.particles[key].count]_vars

\* TRUE when the particle under key is unlocked, owned, productive and feeds a pool
FeedsPool(key) ==
    /\ particles[key].unlocked
    /\ DGt(particles[key].count, D(0))
    /\ DGt(particles[key].base_production, D(0))
    /\ particles[key].produces \in Pools

\* C28: every update_economy call with an elapsed time above 0 strictly
\* increases the count of each pool that an unlocked, owned and productive
\* particle feeds
C28_PoolAlwaysGrows ==
    [][last'.op = "update_economy" =>
          \A time_diff \in PoolDt :
             (update_economy(time_diff) /\ DGt(time_diff, D(0))) =>
                \A key \in ParticleKeys :
                   FeedsPool(key) =>
                      DGt(particles'[particles[key].produces].count,
                          particles[particles[key].produces].count)]_vars
====
